---- MODULE Spec2Model ----
(***************************************************************************)
(* lg: a command logger (src/src/main.rs).  The wrapper opens one sink     *)
(* (combined mode) or two sinks (split mode), writes a header, spawns the  *)
(* child with piped stdout/stderr, drains both pipes with a select! loop,  *)
(* waits for the child, appends the exit-code trailer, flushes, and        *)
(* renames the file(s) when the name template contains {exit_code}.        *)
(*                                                                         *)
(* File names are sequences of tokens whose concatenation is the name: "." *)
(* and "_" are the one-character tokens the path and template code looks   *)
(* at, every other token is a run of other characters.                     *)
(***************************************************************************)
EXTENDS Integers, Sequences, FiniteSets, TLC

\* ------------------------------------------------------------------ bounds
\* Lines the child writes in total, over both streams.
MaxLines == 2
\* Lines an OS pipe holds before a write to it blocks.
PipeCap == 1
\* Records a writer buffers before it has to write them to its file.
BufCap == 1

\* ------------------------------------------------------- token sequences
Last(s) == s[Len(s)]

Front(s) == SubSeq(s, 1, Len(s) - 1)

RECURSIVE Flatten(_)
Flatten(ss) == IF ss = <<>> THEN <<>> ELSE Head(ss) \o Flatten(Tail(ss))

\* str.replace("..", "."): one left-to-right pass over non-overlapping matches.
RECURSIVE ReplaceDotDot(_)
ReplaceDotDot(s) ==
  IF Len(s) < 2 THEN s
  ELSE IF s[1] = "." /\ s[2] = "." THEN <<".">> \o ReplaceDotDot(SubSeq(s, 3, Len(s)))
  ELSE <<s[1]>> \o ReplaceDotDot(Tail(s))

\* while s.contains("__") { s = s.replace("__", "_") }: no "__" is left.
RECURSIVE CollapseUnderscores(_)
CollapseUnderscores(s) ==
  IF Len(s) < 2 THEN s
  ELSE IF s[1] = "_" /\ s[2] = "_" THEN CollapseUnderscores(Tail(s))
  ELSE <<s[1]>> \o CollapseUnderscores(Tail(s))

RECURSIVE TrimStart(_)
TrimStart(s) ==
  IF s # <<>> /\ Head(s) \in {"_", "."} THEN TrimStart(Tail(s)) ELSE s

RECURSIVE TrimEnd(_)
TrimEnd(s) ==
  IF s # <<>> /\ Last(s) \in {"_", "."} THEN TrimEnd(Front(s)) ELSE s

\* s.trim_matches(|c| c == '_' || c == '.')
TrimMatches(s) == TrimEnd(TrimStart(s))

\* ------------------------------------------------------ template rendering
\* The fragments the placeholders render to.  include_args_in_name is off,
\* so {args} renders to the empty string.
CmdStr == <<"echo">>

ArgsUsed == <<>>

DateStr == <<"D">>

TimeStr == <<"T">>

\* Option<i32>::None: no exit code known (yet).
NoCode == -1

\* The exit code as text; None renders as NA.
CodeStr(exit_code) == IF exit_code = NoCode THEN <<"NA">> ELSE <<ToString(exit_code)>>

RenderToken(tok, exit_code) ==
  CASE tok = "{cmd}" -> CmdStr
    [] tok = "{args}" -> ArgsUsed
    [] tok = "{date}" -> DateStr
    [] tok = "{time}" -> TimeStr
    [] tok = "{exit_code}" -> CodeStr(exit_code)
    [] OTHER -> <<tok>>

render_template(tpl, exit_code) ==
  LET s == Flatten([i \in 1..Len(tpl) |-> RenderToken(tpl[i], exit_code)])
  IN  TrimMatches(CollapseUnderscores(ReplaceDotDot(s)))

\* ------------------------------------------------------------- std::path
\* Index of the last "." of a name, 0 when it has none.
RECURSIVE LastDot(_)
LastDot(p) ==
  IF p = <<>> THEN 0 ELSE IF Last(p) = "." THEN Len(p) ELSE LastDot(Front(p))

\* Path::extension is None when there is no dot or the only dot leads the name.
HasExtension(p) == LastDot(p) > 1

Extension(p) == SubSeq(p, LastDot(p) + 1, Len(p))

FileStem(p) == IF HasExtension(p) THEN SubSeq(p, 1, LastDot(p) - 1) ELSE p

\* PathBuf::set_extension / Path::with_extension
SetExtension(p, ext) == IF ext = <<>> THEN FileStem(p) ELSE FileStem(p) \o <<".">> \o ext

\* to_string_lossy().ends_with(".gz")
EndsWithGz(p) == Len(p) >= 2 /\ p[Len(p)] = "gz" /\ p[Len(p) - 1] = "."

\* A hidden (dot-prefixed) name.
IsHidden(p) == p # <<>> /\ Head(p) = "."

\* ------------------------------------------------------------------ Config
DEFAULT_FILENAME_TEMPLATE == <<"{cmd}", "_", "{date}", "_", "{time}", ".", "log">>

\* The name templates a run is started with: the default, one with
\* {exit_code} and an extension, one with {exit_code} and no extension
\* (whose empty {args} leaves a "__" to collapse), one with neither.
Templates ==
  { DEFAULT_FILENAME_TEMPLATE,
    <<"{cmd}", "_", "{exit_code}", ".", "log">>,
    <<"{cmd}", "_", "{args}", "_", "{exit_code}">>,
    <<"{cmd}">> }

Compress == {"none", "gz"}

Config ==
  [ filename_template : Templates,
    split_streams : BOOLEAN,
    compress : Compress,
    tee : BOOLEAN,
    plain_lines : BOOLEAN,
    timestamp_each_line : BOOLEAN ]

\* What Local::now() formats to when a line is written.
Times == {"t1", "t2"}

\* Exit codes a child exits with.
ExitCodes == {0, 1, 37}

Streams == {"out", "err"}

SinkIds == {"main", "out", "err"}

\* ------------------------------------------------------------- run: paths
needs_rename(c) ==
  \E i \in 1..Len(c.filename_template) : c.filename_template[i] = "{exit_code}"

base_name(c) == render_template(c.filename_template, NoCode)

tmp_name(c) == <<".">> \o base_name(c) \o <<".", "partial">>

\* log_path as run() hands it to run_and_log_combined / run_and_log_split.
LogPath(c) ==
  LET first == IF needs_rename(c) THEN tmp_name(c) ELSE base_name(c)
      withLog == IF ~HasExtension(base_name(c))
                 THEN base_name(c) \o <<".", "log">>
                 ELSE first
      withGz == IF c.compress = "gz" /\ ~EndsWithGz(withLog)
                THEN SetExtension(withLog,
                       IF HasExtension(withLog)
                       THEN Extension(withLog) \o <<"gz">>
                       ELSE <<"log", ".", "gz">>)
                ELSE withLog
  IN  IF c.split_streams THEN first ELSE withGz

\* out_path / err_path of run_and_log_split.
SplitPath(c, base_path, s) ==
  LET plain == SetExtension(base_path, <<s, ".", "log">>)
  IN  IF c.compress = "gz" THEN SetExtension(plain, <<s, ".", "log", ".", "gz">>) ELSE plain

\* out_final / err_final of run(): the name the split file is renamed to.
SplitFinal(c, exit_code, s) ==
  render_template(c.filename_template, exit_code) \o <<".", s, ".", "log">>
    \o (IF c.compress = "gz" THEN <<".", "gz">> ELSE <<>>)

\* final_path of run(): the name the combined file is renamed to.
CombinedFinal(c, exit_code, path_written) ==
  LET final_name == render_template(c.filename_template, exit_code)
  IN  IF EndsWithGz(path_written) /\ ~EndsWithGz(final_name)
      THEN SetExtension(final_name, <<"log", ".", "gz">>)
      ELSE IF ~HasExtension(final_name)
      THEN SetExtension(final_name, <<"log">>)
      ELSE final_name

\* ------------------------------------------------------------------ state
VARIABLES
  cfg,        \* the resolved Config of the run
  pc,         \* where the wrapper is in run / run_and_log_*
  log_path,   \* log_path of run()
  writers,    \* per sink: the open writer, its path and its buffered records
  fs,         \* the output directory: file name -> file
  child,      \* the child process: its state and, once exited, its code
  pending,    \* the operation the child is about to do
  wrote,      \* per stream, the lines the child has written (S_out, S_err)
  pipe,       \* per stream, the lines in the OS pipe
  out_done,
  err_done,
  term,       \* per stream, the lines mirrored to the wrapper's terminal
  dispatched, \* the lines written by write_line, in the order of dispatch
  warnings,   \* the diagnostics the wrapper itself printed to its stderr
  code,       \* status.code().unwrap_or(1), once the child was awaited
  error,      \* the error run() unwinds with, "none" without
  exit_code,  \* the wrapper's own exit code, once it exited
  renamed     \* per sink, the outcome of fs::rename

vars ==
  << cfg, pc, log_path, writers, fs, child, pending, wrote, pipe, out_done,
     err_done, term, dispatched, warnings, code, error, exit_code, renamed >>

\* ---------------------------------------------------------------- records
Header ==
  [kind |-> "header", tag |-> "", ts |-> "", text |-> 0, code |-> NoCode]

\* writeln!(w, "\n[exit_code] {}", code)
Trailer(n) ==
  [kind |-> "trailer", tag |-> "", ts |-> "", text |-> 0, code |-> n]

\* write_line with a bug: the timestamp setting is looked at before
\* plain_lines.
write_line_TimestampFirst(stream, line, now, ts_each, plain_lines) ==
  IF ts_each
  THEN [kind |-> "line", tag |-> stream, ts |-> now, text |-> line, code |-> NoCode]
  ELSE IF plain_lines
  THEN [kind |-> "line", tag |-> "", ts |-> "", text |-> line, code |-> NoCode]
  ELSE [kind |-> "line", tag |-> stream, ts |-> "", text |-> line, code |-> NoCode]

\* The record write_line writes for a line of a stream.
write_line(stream, line, now, ts_each, plain_lines) ==
  IF plain_lines
  THEN [kind |-> "line", tag |-> "", ts |-> "", text |-> line, code |-> NoCode]
  ELSE IF ts_each
  THEN [kind |-> "line", tag |-> stream, ts |-> now, text |-> line, code |-> NoCode]
  ELSE [kind |-> "line", tag |-> stream, ts |-> "", text |-> line, code |-> NoCode]

StreamTag(s) == IF s = "out" THEN "STDOUT" ELSE "STDERR"

\* ---------------------------------------------------------------- writers
NoWriter == [state |-> "none", path |-> <<>>, buf |-> <<>>]

\* File::create: an empty file; a gzip stream is complete once finished.
NewFile(c) == [data |-> <<>>, enc |-> c.compress, finished |-> c.compress = "none"]

\* BufWrite with a bug: writing through forgets the records it buffered.
BufWrite_LosesBuffer(w, data, recs, disk_ok) ==
  IF Len(w.buf) + Len(recs) <= BufCap
  THEN [ok |-> TRUE, buf |-> w.buf \o recs, data |-> data]
  ELSE IF ~disk_ok
  THEN [ok |-> FALSE, buf |-> w.buf, data |-> data]
  ELSE IF Len(recs) >= BufCap
  THEN [ok |-> TRUE, buf |-> <<>>, data |-> data \o recs]
  ELSE [ok |-> TRUE, buf |-> recs, data |-> data]

\* Write of BufWriter / GzEncoder: buffer the records when they fit, else
\* write the buffer out (disk_ok: whether the write to the file works) and
\* buffer the records, or write them through when they fill a buffer.
BufWrite(w, data, recs, disk_ok) ==
  IF Len(w.buf) + Len(recs) <= BufCap
  THEN [ok |-> TRUE, buf |-> w.buf \o recs, data |-> data]
  ELSE IF ~disk_ok
  THEN [ok |-> FALSE, buf |-> w.buf, data |-> data]
  ELSE IF Len(recs) >= BufCap
  THEN [ok |-> TRUE, buf |-> <<>>, data |-> data \o w.buf \o recs]
  ELSE [ok |-> TRUE, buf |-> recs, data |-> data \o w.buf]

\* The sinks a run writes: one in combined mode, two in split mode.
UsedSinks(c) == IF c.split_streams THEN {"out", "err"} ELSE {"main"}

\* The name run() renames the file of a sink to.
FinalPath(s) ==
  IF s = "main" THEN CombinedFinal(cfg, code, writers[s].path) ELSE SplitFinal(cfg, code, s)

\* The name the file of a sink has now.
CurPath(s) == IF renamed[s] = "ok" THEN FinalPath(s) ELSE writers[s].path

\* Everything appended through the writer of a sink: file plus buffer.
Appended(s) ==
  IF writers[s].state = "none" THEN <<>> ELSE fs[CurPath(s)].data \o writers[s].buf

Goto(next) == pc' = next /\ error' = error

\* `?`: the function returns the error; its locals are dropped.
Raise(kind) == pc' = "drop" /\ error' = kind

\* open_writer(cfg, path) for a sink
OpenWriter(sink, path, next) ==
  \E ok \in BOOLEAN :
    IF ok
    THEN /\ fs' = (path :> NewFile(cfg)) @@ fs
         /\ writers' = [writers EXCEPT ![sink] = [state |-> "open", path |-> path, buf |-> <<>>]]
         /\ Goto(next)
    ELSE /\ UNCHANGED <<fs, writers>>
         /\ Raise("open")

\* A write of records to the writer of a sink, and `?` on its result.
Write(sink, recs, next) ==
  \E disk_ok \in BOOLEAN :
    LET w == writers[sink]
        r == BufWrite(w, fs[w.path].data, recs, disk_ok)
    IN  /\ writers' = [writers EXCEPT ![sink].buf = r.buf]
        /\ fs' = [fs EXCEPT ![w.path].data = r.data]
        /\ IF r.ok THEN Goto(next) ELSE Raise("write")

\* writer.flush()?
Flush(sink, next) ==
  \E disk_ok \in BOOLEAN :
    LET w == writers[sink] IN
    IF disk_ok
    THEN /\ fs' = [fs EXCEPT ![w.path].data = @ \o w.buf]
         /\ writers' = [writers EXCEPT ![sink].buf = <<>>]
         /\ Goto(next)
    ELSE /\ UNCHANGED <<fs, writers>>
         /\ Raise("write")

\* Leaving run_and_log_*: the writers are dropped.  Dropping a writer
\* writes out what it still buffers and, for gzip, finishes the stream;
\* a failure there is ignored (sinks in `failing` fail).
DropWriters(failing) ==
  LET open == {s \in SinkIds : writers[s].state = "open"}
      owner(p) == CHOOSE s \in open : writers[s].path = p
  IN  /\ writers' = [s \in SinkIds |->
                       IF s \in open THEN [writers[s] EXCEPT !.state = "closed", !.buf = <<>>]
                       ELSE writers[s]]
      /\ fs' = [p \in DOMAIN fs |->
                  IF (\E s \in open : writers[s].path = p) /\ owner(p) \notin failing
                  THEN [fs[p] EXCEPT !.data = @ \o writers[owner(p)].buf, !.finished = TRUE]
                  ELSE fs[p]]

\* Rename with a bug: the file is copied, the old name stays.
Rename_Copies(sink, from, to) ==
  \E ok \in BOOLEAN :
    IF ok /\ from \in DOMAIN fs
    THEN /\ fs' = [p \in DOMAIN fs \cup {to} |-> IF p = to THEN fs[from] ELSE fs[p]]
         /\ renamed' = [renamed EXCEPT ![sink] = "ok"]
    ELSE /\ fs' = fs
         /\ renamed' = [renamed EXCEPT ![sink] = "failed"]

\* fs::rename(from, to), its result ignored.
Rename(sink, from, to) ==
  \E ok \in BOOLEAN :
    IF ok /\ from \in DOMAIN fs
    THEN /\ fs' = [p \in (DOMAIN fs \ {from}) \cup {to} |-> IF p = to THEN fs[from] ELSE fs[p]]
         /\ renamed' = [renamed EXCEPT ![sink] = "ok"]
    ELSE /\ fs' = fs
         /\ renamed' = [renamed EXCEPT ![sink] = "failed"]

\* ------------------------------------------------------------------ child
NoLine == [text |-> 0, utf8 |-> TRUE]

NoOp == [op |-> "none", stream |-> "", line |-> NoLine]

\* What a child does next: write one more line (valid text or not) to one
\* of its streams, or close both streams.
NextOps ==
  LET n == Len(wrote'["out"]) + Len(wrote'["err"])
  IN  {[op |-> "close", stream |-> "", line |-> NoLine]}
      \cup (IF n < MaxLines
            THEN {[op |-> "write", stream |-> s, line |-> [text |-> n + 1, utf8 |-> u]] :
                    s \in Streams, u \in BOOLEAN}
            ELSE {})

\* Lines::next_line on the bytes of a line: a String, or InvalidData when
\* the bytes are not valid UTF-8.
next_line(l) == [ok |-> l.utf8, text |-> l.text]

\* The diagnostics run() prints before it opens a sink: an unknown value of
\* --compress is reported and read as "none".
Diagnostics == {"unknown_compress"}

Init ==
  /\ cfg \in Config
  /\ pc = "start"
  /\ log_path = <<>>
  /\ writers = [s \in SinkIds |-> NoWriter]
  /\ fs = <<>>
  /\ child = [state |-> "none", code |-> NoCode]
  /\ pending = NoOp
  /\ wrote = [s \in Streams |-> <<>>]
  /\ pipe = [s \in Streams |-> <<>>]
  /\ out_done = FALSE
  /\ err_done = FALSE
  /\ term = [s \in Streams |-> <<>>]
  /\ dispatched = <<>>
  /\ warnings \in {w \in SUBSET Diagnostics : w # {} => cfg.compress = "none"}
  /\ code = NoCode
  /\ error = "none"
  /\ exit_code = NoCode
  /\ renamed = [s \in SinkIds |-> "none"]

\* ------------------------------------------------------- wrapper: shared
ChildVars == <<child, pending, wrote>>

\* run(), up to the call of run_and_log_*: the output directory and log_path.
Prepare ==
  /\ pc = "start"
  /\ \E ok \in BOOLEAN :
       IF ok
       THEN /\ log_path' = LogPath(cfg)
            /\ Goto(IF cfg.split_streams THEN "s_open_out" ELSE "c_open")
       ELSE /\ log_path' = log_path
            /\ Raise("setup")
  /\ UNCHANGED <<cfg, writers, fs, ChildVars, pipe, out_done, err_done, term, dispatched, warnings, code,
                 exit_code, renamed>>

\* Command::spawn()
Spawn(at, next) ==
  /\ pc = at
  /\ \E ok \in BOOLEAN :
       IF ok
       THEN /\ child' = [child EXCEPT !.state = "running"]
            /\ wrote' = wrote
            /\ pending' \in NextOps
            /\ Goto(next)
       ELSE /\ UNCHANGED ChildVars
            /\ Raise("spawn")
  /\ UNCHANGED <<cfg, log_path, writers, fs, pipe, out_done, err_done, term, dispatched, warnings, code,
                 exit_code, renamed>>

\* Mirrored with a bug: the lines of both streams go to the wrapper's stdout.
Mirrored_AlwaysStdout(s, text) ==
  IF cfg.tee THEN [term EXCEPT !["out"] = Append(@, text)] ELSE term

\* if tee { println!("{}", l) } / if tee { eprintln!("{}", l) }
Mirrored(s, text) ==
  IF cfg.tee THEN [term EXCEPT ![s] = Append(@, text)] ELSE term

\* MarkDone with a bug: the end of a stream marks the other stream done.
MarkDone_Other(s) ==
  /\ out_done' = (out_done \/ s = "err")
  /\ err_done' = (err_done \/ s = "out")

\* None => { out_done = true; } / None => { err_done = true; }
MarkDone(s) ==
  /\ out_done' = (out_done \/ s = "out")
  /\ err_done' = (err_done \/ s = "err")

\* One branch of select!: the next line of stream s, or its end.
Branch(s, sink, at) ==
  /\ pc = at
  /\ ~(IF s = "out" THEN out_done ELSE err_done)
  /\ IF pipe[s] # <<>>
     THEN LET line == next_line(Head(pipe[s])) IN
          /\ pipe' = [pipe EXCEPT ![s] = Tail(@)]
          /\ UNCHANGED <<out_done, err_done>>
          /\ IF line.ok
             THEN /\ term' = Mirrored(s, line.text)
                  /\ \E now \in Times :
                       LET rec == write_line(StreamTag(s), line.text, now,
                                             cfg.timestamp_each_line, cfg.plain_lines)
                       IN  /\ Write(sink, <<rec>>, at)
                           /\ dispatched' = IF pc' = at
                                             THEN Append(dispatched, [stream |-> s, rec |-> rec])
                                             ELSE dispatched
             ELSE /\ Raise("read")
                  /\ UNCHANGED <<term, dispatched, writers, fs>>
     ELSE /\ child.state # "running"
          /\ MarkDone(s)
          /\ Goto(at)
          /\ UNCHANGED <<pipe, term, dispatched, writers, fs>>
  /\ UNCHANGED <<cfg, log_path, ChildVars, code, exit_code, renamed, warnings>>

\* Break with a bug: the loop ends at the first end-of-stream.
Break_OnFirstEof(at, next) ==
  /\ pc = at
  /\ out_done \/ err_done
  /\ Goto(next)
  /\ UNCHANGED <<cfg, log_path, writers, fs, ChildVars, pipe, out_done, err_done, term, dispatched, warnings,
                 code, exit_code, renamed>>

\* else => break
Break(at, next) ==
  /\ pc = at
  /\ out_done /\ err_done
  /\ Goto(next)
  /\ UNCHANGED <<cfg, log_path, writers, fs, ChildVars, pipe, out_done, err_done, term, dispatched, warnings,
                 code, exit_code, renamed>>

\* child.wait().await? and status.code().unwrap_or(1)
Wait(at, next) ==
  /\ pc = at
  /\ child.state \in {"exited", "signaled"}
  /\ \E ok \in BOOLEAN :
       IF ok
       THEN /\ code' = IF child.state = "exited" THEN child.code ELSE 1
            /\ Goto(next)
       ELSE /\ code' = code
            /\ Raise("wait")
  /\ UNCHANGED <<cfg, log_path, writers, fs, ChildVars, pipe, out_done, err_done, term, dispatched, warnings,
                 exit_code, renamed>>

WriterFrame ==
  <<cfg, log_path, ChildVars, pipe, out_done, err_done, term, dispatched, warnings, code, exit_code, renamed>>

\* Unwind with a bug: the child is killed when run() fails.
Unwind_KillsChild ==
  /\ pc = "drop"
  /\ \E failing \in SUBSET {s \in SinkIds : writers[s].state = "open"} : DropWriters(failing)
  /\ Goto("main")
  /\ child' = IF child.state \in {"running", "closed"}
              THEN [state |-> "signaled", code |-> NoCode]
              ELSE child
  /\ UNCHANGED <<cfg, log_path, pending, wrote, pipe, out_done, err_done, term, dispatched, warnings, code,
                 exit_code, renamed>>

\* An error unwinds run(): the writers are dropped, main gets the error.
Unwind ==
  /\ pc = "drop"
  /\ \E failing \in SUBSET {s \in SinkIds : writers[s].state = "open"} : DropWriters(failing)
  /\ Goto("main")
  /\ UNCHANGED WriterFrame

\* MainExit with a bug: a failed run exits with the code of the child when
\* the child was awaited.
MainExit_ChildCodeOnError ==
  /\ pc = "main"
  /\ exit_code' = IF code # NoCode THEN code ELSE 1
  /\ Goto("exited")
  /\ UNCHANGED <<cfg, log_path, writers, fs, ChildVars, pipe, out_done, err_done, term,
                 dispatched, warnings, code, renamed>>

\* MainExit with a bug: the wrapper always exits 0.
MainExit_IgnoresCode ==
  /\ pc = "main"
  /\ exit_code' = 0
  /\ Goto("exited")
  /\ UNCHANGED <<cfg, log_path, writers, fs, ChildVars, pipe, out_done, err_done, term, dispatched, warnings,
                 code, renamed>>

\* main: exit with the code of run(), or 1 when run() failed.
MainExit ==
  /\ pc = "main"
  /\ exit_code' = IF error = "none" THEN code ELSE 1
  /\ Goto("exited")
  /\ UNCHANGED <<cfg, log_path, writers, fs, ChildVars, pipe, out_done, err_done, term, dispatched, warnings,
                 code, renamed>>

\* ------------------------------------------------- run_and_log_combined
C_Open ==
  /\ pc = "c_open"
  /\ OpenWriter("main", log_path, "c_header")
  /\ UNCHANGED WriterFrame

\* C_Header with a bug: the child is spawned without a header written.
C_Header_Skipped ==
  /\ pc = "c_header"
  /\ Goto("c_spawn")
  /\ UNCHANGED <<writers, fs>>
  /\ UNCHANGED WriterFrame

C_Header ==
  /\ pc = "c_header"
  /\ Write("main", <<Header>>, "c_spawn")
  /\ UNCHANGED WriterFrame

C_Spawn == Spawn("c_spawn", "c_drain")

C_ReadOut == Branch("out", "main", "c_drain")

C_ReadErr == Branch("err", "main", "c_drain")

\* C_Break with a bug: the loop is left before the streams have ended.
C_Break_Undrained ==
  /\ pc = "c_drain"
  /\ Goto("c_wait")
  /\ UNCHANGED <<cfg, log_path, writers, fs, ChildVars, pipe, out_done, err_done, term,
                 dispatched, warnings, code, exit_code, renamed>>

C_Break == Break("c_drain", "c_wait")

C_Wait == Wait("c_wait", "c_trailer")

C_Trailer ==
  /\ pc = "c_trailer"
  /\ Write("main", <<Trailer(code)>>, "c_flush")
  /\ UNCHANGED WriterFrame

C_Flush ==
  /\ pc = "c_flush"
  /\ Flush("main", "c_return")
  /\ UNCHANGED WriterFrame

\* C_Return with a bug: the file is renamed whatever the template.
C_Return_AlwaysRenames ==
  /\ pc = "c_return"
  /\ \E failing \in SUBSET {"main"} : DropWriters(failing)
  /\ Goto("c_rename")
  /\ UNCHANGED WriterFrame

\* Ok((code, final_path)): back in run(), the writer dropped.
C_Return ==
  /\ pc = "c_return"
  /\ \E failing \in SUBSET {"main"} : DropWriters(failing)
  /\ Goto(IF needs_rename(cfg) THEN "c_rename" ELSE "main")
  /\ UNCHANGED WriterFrame

\* run(): the combined file gets its final name.
C_Rename ==
  /\ pc = "c_rename"
  /\ Rename("main", writers["main"].path, CombinedFinal(cfg, code, writers["main"].path))
  /\ Goto("main")
  /\ UNCHANGED <<cfg, log_path, writers, ChildVars, pipe, out_done, err_done, term, dispatched, warnings, code,
                 exit_code>>

\* ---------------------------------------------------- run_and_log_split
S_OpenOut ==
  /\ pc = "s_open_out"
  /\ OpenWriter("out", SplitPath(cfg, log_path, "out"), "s_open_err")
  /\ UNCHANGED WriterFrame

\* S_OpenErr with a bug: the child is already spawned when the open fails.
S_OpenErr_AfterSpawn ==
  /\ pc = "s_open_err"
  /\ \E ok \in BOOLEAN :
       IF ok
       THEN /\ fs' = (SplitPath(cfg, log_path, "err") :> NewFile(cfg)) @@ fs
            /\ writers' = [writers EXCEPT !["err"] =
                             [state |-> "open", path |-> SplitPath(cfg, log_path, "err"),
                              buf |-> <<>>]]
            /\ Goto("s_header_out")
            /\ UNCHANGED ChildVars
       ELSE /\ UNCHANGED <<fs, writers, wrote>>
            /\ child' = [child EXCEPT !.state = "running"]
            /\ pending' \in NextOps
            /\ Raise("open")
  /\ UNCHANGED <<cfg, log_path, pipe, out_done, err_done, term, dispatched, warnings,
                 code, exit_code, renamed>>

S_OpenErr ==
  /\ pc = "s_open_err"
  /\ OpenWriter("err", SplitPath(cfg, log_path, "err"), "s_header_out")
  /\ UNCHANGED WriterFrame

S_HeaderOut ==
  /\ pc = "s_header_out"
  /\ Write("out", <<Header>>, "s_header_err")
  /\ UNCHANGED WriterFrame

S_HeaderErr ==
  /\ pc = "s_header_err"
  /\ Write("err", <<Header>>, "s_spawn")
  /\ UNCHANGED WriterFrame

S_Spawn == Spawn("s_spawn", "s_drain")

S_ReadOut == Branch("out", "out", "s_drain")

\* S_ReadErr with a bug: the lines of stderr are written to the stdout sink.
S_ReadErr_ToOutSink == Branch("err", "out", "s_drain")

S_ReadErr == Branch("err", "err", "s_drain")

S_Break == Break("s_drain", "s_wait")

S_Wait == Wait("s_wait", "s_trailer_out")

S_TrailerOut ==
  /\ pc = "s_trailer_out"
  /\ Write("out", <<Trailer(code)>>, "s_trailer_err")
  /\ UNCHANGED WriterFrame

S_TrailerErr ==
  /\ pc = "s_trailer_err"
  /\ Write("err", <<Trailer(code)>>, "s_flush_out")
  /\ UNCHANGED WriterFrame

S_FlushOut ==
  /\ pc = "s_flush_out"
  /\ Flush("out", "s_flush_err")
  /\ UNCHANGED WriterFrame

S_FlushErr ==
  /\ pc = "s_flush_err"
  /\ Flush("err", "s_return")
  /\ UNCHANGED WriterFrame

\* Ok((code, out_final, err_final)): back in run(), both writers dropped.
S_Return ==
  /\ pc = "s_return"
  /\ \E failing \in SUBSET {"out", "err"} : DropWriters(failing)
  /\ Goto(IF needs_rename(cfg) THEN "s_rename_out" ELSE "main")
  /\ UNCHANGED WriterFrame

\* S_RenameOut with a bug: fs::rename(out_path, out_final)?
S_RenameOut_Fatal ==
  /\ pc = "s_rename_out"
  /\ Rename("out", writers["out"].path, SplitFinal(cfg, code, "out"))
  /\ IF renamed'["out"] = "ok" THEN Goto("s_rename_err") ELSE Raise("rename")
  /\ UNCHANGED <<cfg, log_path, writers, ChildVars, pipe, out_done, err_done, term, dispatched, warnings, code,
                 exit_code>>

\* run(): let _ = fs::rename(out_path, out_final)
S_RenameOut ==
  /\ pc = "s_rename_out"
  /\ Rename("out", writers["out"].path, SplitFinal(cfg, code, "out"))
  /\ Goto("s_rename_err")
  /\ UNCHANGED <<cfg, log_path, writers, ChildVars, pipe, out_done, err_done, term, dispatched, warnings, code,
                 exit_code>>

\* run(): let _ = fs::rename(err_path, err_final)
S_RenameErr ==
  /\ pc = "s_rename_err"
  /\ Rename("err", writers["err"].path, SplitFinal(cfg, code, "err"))
  /\ Goto("main")
  /\ UNCHANGED <<cfg, log_path, writers, ChildVars, pipe, out_done, err_done, term, dispatched, warnings, code,
                 exit_code>>

\* ------------------------------------------------------------- the child
ChildFrame ==
  <<cfg, pc, log_path, writers, fs, out_done, err_done, term, dispatched, warnings, code, error, exit_code,
    renamed>>

\* The child writes its next line; the write blocks while the pipe is full.
ChildWrite ==
  /\ child.state = "running"
  /\ pc # "exited"
  /\ pending.op = "write"
  /\ Len(pipe[pending.stream]) < PipeCap
  /\ pipe' = [pipe EXCEPT ![pending.stream] = Append(@, pending.line)]
  /\ wrote' = [wrote EXCEPT ![pending.stream] = Append(@, pending.line)]
  /\ pending' \in NextOps
  /\ child' = child
  /\ UNCHANGED ChildFrame

\* The child closes its stdout and stderr.
ChildClose ==
  /\ child.state = "running"
  /\ pc # "exited"
  /\ pending.op = "close"
  /\ child' = [child EXCEPT !.state = "closed"]
  /\ pending' = NoOp
  /\ UNCHANGED <<wrote, pipe>>
  /\ UNCHANGED ChildFrame

\* The child exits with a code.
ChildExit ==
  /\ child.state = "closed"
  /\ pc # "exited"
  /\ \E c \in ExitCodes : child' = [state |-> "exited", code |-> c]
  /\ UNCHANGED <<pending, wrote, pipe>>
  /\ UNCHANGED ChildFrame

\* A signal from outside terminates the child; its pipe ends close.
ChildSignaled ==
  /\ child.state \in {"running", "closed"}
  /\ pc # "exited"
  /\ child' = [state |-> "signaled", code |-> NoCode]
  /\ pending' = NoOp
  /\ UNCHANGED <<wrote, pipe>>
  /\ UNCHANGED ChildFrame

\* ------------------------------------------------------------------ Spec
Next ==
  \/ Prepare
  \/ C_Open \/ C_Header \/ C_Spawn \/ C_ReadOut \/ C_ReadErr \/ C_Break \/ C_Wait
  \/ C_Trailer \/ C_Flush \/ C_Return \/ C_Rename
  \/ S_OpenOut \/ S_OpenErr \/ S_HeaderOut \/ S_HeaderErr \/ S_Spawn \/ S_ReadOut
  \/ S_ReadErr \/ S_Break \/ S_Wait \/ S_TrailerOut \/ S_TrailerErr \/ S_FlushOut
  \/ S_FlushErr \/ S_Return \/ S_RenameOut \/ S_RenameErr
  \/ Unwind \/ MainExit
  \/ ChildWrite \/ ChildClose \/ ChildExit \/ ChildSignaled

\* The steps of the wrapper and of the child.
WrapperNext ==
  \/ Prepare
  \/ C_Open \/ C_Header \/ C_Spawn \/ C_ReadOut \/ C_ReadErr \/ C_Break \/ C_Wait
  \/ C_Trailer \/ C_Flush \/ C_Return \/ C_Rename
  \/ S_OpenOut \/ S_OpenErr \/ S_HeaderOut \/ S_HeaderErr \/ S_Spawn \/ S_ReadOut
  \/ S_ReadErr \/ S_Break \/ S_Wait \/ S_TrailerOut \/ S_TrailerErr \/ S_FlushOut
  \/ S_FlushErr \/ S_Return \/ S_RenameOut \/ S_RenameErr
  \/ Unwind \/ MainExit

ChildNext == ChildWrite \/ ChildClose \/ ChildExit

Spec == Init /\ [][Next]_vars

\* The runtime polls the wrapper's task whenever it can take a step, and the
\* OS runs the child whenever it is not blocked on a full pipe.
LiveSpec == Spec /\ WF_vars(WrapperNext) /\ WF_vars(ChildNext)

\* ---------------------------------------------------------------- claims
\* The run completed without error.
Completed == pc = "exited" /\ error = "none"

Texts(seq) == [i \in 1..Len(seq) |-> seq[i].text]

\* S_out / S_err: the texts of the lines the child wrote to a stream.
S(stream) == Texts(wrote[stream])

IsLine(r) == r.kind = "line"

LineRecs(s) == SelectSeq(Appended(s), IsLine)

\* The texts of the lines of a sink that carry a tag.
Tagged(s, tag) ==
  LET Has(r) == r.kind = "line" /\ r.tag = tag IN Texts(SelectSeq(Appended(s), Has))

\* The sink the lines of a stream are routed to.
Routed(stream) == IF cfg.split_streams THEN stream ELSE "main"

RECURSIVE IsInterleaving(_, _, _)
IsInterleaving(m, a, b) ==
  IF m = <<>> THEN a = <<>> /\ b = <<>>
  ELSE \/ a # <<>> /\ Head(a) = Head(m) /\ IsInterleaving(Tail(m), Tail(a), b)
       \/ b # <<>> /\ Head(b) = Head(m) /\ IsInterleaving(Tail(m), a, Tail(b))

\* C1 as stated: after a run without error the lines tagged STDOUT in the
\* routed sink are S_out and the lines tagged STDERR are S_err.
C1_TaggedLinesEqualStreams ==
  Completed =>
    /\ Tagged(Routed("out"), "STDOUT") = S("out")
    /\ Tagged(Routed("err"), "STDERR") = S("err")

\* C1 amended: after a run without error every line is in its routed sink
\* once and in the order of its stream.  With plain-line mode off the lines
\* tagged STDOUT are S_out, those tagged STDERR are S_err, and the sinks
\* hold no other line; in plain-line mode the lines carry no tag, and the
\* lines of a split sink are those of its stream, the lines of the combined
\* sink an order-preserving interleaving of S_out and S_err.
C1_LinesOncePerStreamInOrder ==
  Completed =>
    IF cfg.plain_lines
    THEN IF cfg.split_streams
         THEN Texts(LineRecs("out")) = S("out") /\ Texts(LineRecs("err")) = S("err")
         ELSE IsInterleaving(Texts(LineRecs("main")), S("out"), S("err"))
    ELSE /\ Tagged(Routed("out"), "STDOUT") = S("out")
         /\ Tagged(Routed("err"), "STDERR") = S("err")
         /\ IF cfg.split_streams
            THEN /\ Len(LineRecs("out")) = Len(S("out"))
                 /\ Len(LineRecs("err")) = Len(S("err"))
            ELSE Len(LineRecs("main")) = Len(S("out")) + Len(S("err"))

\* A combined tagged run where the stderr line, written second, was
\* delivered before the stdout line.
C1_Witness ==
  /\ Completed
  /\ ~cfg.plain_lines /\ ~cfg.split_streams
  /\ S("out") = <<1>> /\ S("err") = <<2>>
  /\ Texts(LineRecs("main")) = <<2, 1>>

\* C3: a run without error exits with the child's exit code when the child
\* exited, and with 1 when a signal terminated it.
C3_ExitCodeIsChilds ==
  Completed =>
    /\ child.state \in {"exited", "signaled"}
    /\ child.state = "exited" => exit_code = child.code
    /\ child.state = "signaled" => exit_code = 1

\* The child exited with 37 and so did the wrapper.
C3_Witness == Completed /\ child.state = "exited" /\ child.code = 37 /\ exit_code = 37

TrailersIn(s) ==
  LET IsTrailer(r) == r.kind = "trailer" IN SelectSeq(Appended(s), IsTrailer)

\* The exit code obtained for the child.
ObtainedCode == IF child.state = "exited" THEN child.code ELSE 1

\* C4: after a run without error every sink of the run holds the trailer
\* of the obtained exit code exactly once; a sink holds a trailer only when
\* both streams ended and the child terminated.
C4_TrailerOncePerSink ==
  /\ Completed =>
       \A s \in UsedSinks(cfg) : TrailersIn(s) = <<Trailer(ObtainedCode)>>
  /\ \A s \in SinkIds :
       TrailersIn(s) # <<>> =>
         out_done /\ err_done /\ child.state \in {"exited", "signaled"}

\* Split mode, nothing on stderr, exit code 37: both sinks have the trailer.
C4_Witness ==
  /\ Completed /\ cfg.split_streams
  /\ S("err") = <<>> /\ S("out") # <<>>
  /\ TrailersIn("out") = <<Trailer(37)>> /\ TrailersIn("err") = <<Trailer(37)>>

\* Header first and only first, trailer last.
WellOrdered(seq) ==
  \A i \in 1..Len(seq) :
    /\ seq[i].kind = "header" <=> i = 1
    /\ seq[i].kind = "trailer" => i = Len(seq)

\* C5: at every point of the run the content of every sink, on disk and
\* with what its writer buffers, is the header, then lines, then the trailer.
C5_HeaderLinesTrailer ==
  \A s \in SinkIds :
    writers[s].state # "none" =>
      LET data == fs[CurPath(s)].data IN
      /\ WellOrdered(data \o writers[s].buf)
      /\ WellOrdered(data)

\* A sink that holds its header, a line and the trailer.
C5_Witness ==
  \E s \in SinkIds :
    /\ Len(Appended(s)) >= 3
    /\ Appended(s)[2].kind = "line"
    /\ Appended(s)[Len(Appended(s))].kind = "trailer"

\* The lines of a stream the drain loop has taken from the pipe.
Consumed(stream) == SubSeq(wrote[stream], 1, Len(wrote[stream]) - Len(pipe[stream]))

\* Errors that come from the environment: the disk, the spawn, the wait.
EnvFaults == {"setup", "open", "spawn", "write", "wait"}

\* C2: unless the disk, the spawn or the wait fails, the drain loop
\* eventually has consumed every line the child wrote, has seen the end of
\* both streams, and the run has completed.
C2_DrainCompletes ==
  <>(\/ error \in EnvFaults
     \/ /\ pc = "exited" /\ out_done /\ err_done
        /\ \A s \in Streams : pipe[s] = <<>> /\ Consumed(s) = wrote[s])

InName(tok, p) == \E i \in 1..Len(p) : p[i] = tok

\* C6: a rename that succeeds leaves no file under the name the sink was
\* opened with and leaves, under a name that embeds the exit code in place
\* of NA, the file with the content the old name held; after a run without
\* error whose renames succeeded this is so for every sink of the run.
C6_RenamedByExitCode ==
  /\ [][\A s \in SinkIds :
          (renamed[s] = "none" /\ renamed'[s] = "ok") =>
            /\ error = "none" /\ writers[s].state = "closed"
            /\ writers[s].path \notin DOMAIN fs'
            /\ FinalPath(s) \in DOMAIN fs'
            /\ fs'[FinalPath(s)] = fs[writers[s].path]
            /\ InName(ToString(code), FinalPath(s))
            /\ ~InName("NA", FinalPath(s))]_vars
  /\ [](Completed /\ needs_rename(cfg) =>
          \A s \in UsedSinks(cfg) :
            renamed[s] = "ok" =>
              /\ writers[s].path \notin DOMAIN fs
              /\ FinalPath(s) \in DOMAIN fs
              /\ fs[FinalPath(s)].data # <<>>)

\* Split mode with gzip, exit code 37: both files renamed.
C6_Witness ==
  /\ Completed /\ cfg.split_streams /\ cfg.compress = "gz"
  /\ code = 37 /\ renamed["out"] = "ok" /\ renamed["err"] = "ok"
  /\ S("out") # <<>>
  /\ DOMAIN fs = {FinalPath("out"), FinalPath("err")}

\* C7 as stated: with {exit_code} in the template every sink is opened
\* under a hidden name that is not a final name.
C7_OpenedUnderHiddenTemp ==
  \A s \in SinkIds :
    (needs_rename(cfg) /\ writers[s].state # "none") =>
      /\ IsHidden(writers[s].path)
      /\ \A c \in ExitCodes :
           writers[s].path #
             (IF s = "main" THEN CombinedFinal(cfg, c, writers[s].path)
              ELSE SplitFinal(cfg, c, s))

\* The whole log of a sink: header, the lines routed to it, trailer.
FullContent(s, data) ==
  /\ Len(data) = 2 + (IF s = "main" THEN Len(S("out")) + Len(S("err")) ELSE Len(S(s)))
  /\ data[1] = Header
  /\ data[Len(data)] = Trailer(ObtainedCode)

\* C8: a failed rename is no error of the run: the wrapper exits with the
\* child's code, the file stays under the name it was written to with its
\* whole content, and in split mode both renames are attempted whatever
\* the outcome of the other.
C8_RenameFailureNonFatal ==
  /\ \A s \in SinkIds : renamed[s] # "none" => error = "none"
  /\ Completed =>
       /\ exit_code = ObtainedCode
       /\ \A s \in UsedSinks(cfg) :
            renamed[s] = "failed" =>
              /\ writers[s].path \in DOMAIN fs
              /\ FullContent(s, fs[writers[s].path].data)
  /\ (pc \in {"main", "exited"} /\ error = "none" /\ needs_rename(cfg)) =>
       \A s \in UsedSinks(cfg) : renamed[s] # "none"

\* The stdout file could not be renamed, the stderr file was.
C8_Witness ==
  /\ Completed /\ cfg.split_streams
  /\ renamed["out"] = "failed" /\ renamed["err"] = "ok"
  /\ exit_code = 37

\* C9 as stated: a line that is not valid text never fails the run, and is
\* dispatched like any other line.
C9_InvalidTextNeverFails ==
  \A s \in Streams :
    (\E i \in 1..Len(Consumed(s)) : ~Consumed(s)[i].utf8) =>
      /\ error # "read"
      /\ error = "none" => Len(LineRecs(Routed(s))) >= 1

\* C10: once a write or flush of a sink has failed, no sink gets another
\* record, nothing is renamed, the wrapper goes on to exit with a code
\* that is not 0, and no step of the wrapper changes the child.
C10_WriteFailureFatal ==
  [][error' = "write" =>
       /\ \A s \in SinkIds : Len(Appended(s)') <= Len(Appended(s))
       /\ renamed' = renamed
       /\ DOMAIN fs' = DOMAIN fs
       /\ pc' \in {"drop", "main", "exited"}
       /\ pc' # pc => child' = child
       /\ pc' = "exited" => exit_code' # 0 /\ exit_code' # NoCode]_vars

\* A write failed in the drain loop while the child was running: the
\* wrapper has exited with 1 and the child still runs.
C10_Witness ==
  /\ pc = "exited" /\ error = "write" /\ exit_code = 1
  /\ child.state = "running"
  /\ \E s \in SinkIds : LineRecs(s) # <<>>

\* ---------------------------------------------------------------- C11
\* C11: a sink whose file cannot be created ends the run before a child is
\* spawned, in combined mode and in split mode, also when the first sink of
\* a split run was opened and the second fails: from the failed creation on
\* there is no child, nothing was read or written, and the wrapper exits 1.
C11_NoSpawnAfterFailedOpen ==
  error = "open" =>
    /\ child.state = "none"
    /\ pending = NoOp
    /\ \A s \in Streams : wrote[s] = <<>> /\ pipe[s] = <<>>
    /\ pc \in {"drop", "main", "exited"}
    /\ pc = "exited" => exit_code = 1

\* A split run whose stdout sink was created and whose stderr sink was not.
C11_Witness ==
  /\ pc = "exited"
  /\ error = "open"
  /\ cfg.split_streams
  /\ writers["out"].state = "closed"
  /\ writers["err"].state = "none"
  /\ child.state = "none"

\* ---------------------------------------------------------------- C12
\* The kinds of failure of the wrapper itself: setup, sink creation, spawn,
\* capture (read, wait) and write.
OwnFailures == {"setup", "open", "spawn", "read", "write", "wait"}

Failed == pc = "exited" /\ error # "none"

\* C12 as stated: the exit code of a run that failed in the wrapper is
\* never the code the wrapper reports for a child, which is the exit code of
\* the child or 1 after a signal.
C12_FailureCodeDistinctFromChilds ==
  (Failed /\ child.state \in {"exited", "signaled"}) => exit_code # ObtainedCode

\* C12: a setup, capture or write error ends the run with exit code 1, which
\* is not 0, whatever code the child exited with; that code is distinct from
\* the code of the child unless the child exited with 1 or was terminated by
\* a signal, for which the wrapper reports 1 as well.
C12_OwnFailureExitsOne ==
  /\ error \in OwnFailures \cup {"none"}
  /\ Failed =>
       /\ exit_code = 1
       /\ exit_code # 0
       /\ (child.state = "exited" /\ child.code # 1) => exit_code # child.code

\* A run whose trailer could not be written after the child exited with 37.
C12_Witness ==
  /\ Failed
  /\ error = "write"
  /\ code = 37
  /\ child.state = "exited"
  /\ child.code = 37
  /\ exit_code = 1

\* ---------------------------------------------------------------- C13
IsUtf8(l) == l.utf8

\* The lines of a stream the wrapper read as text.
ReadLines(stream) == Texts(SelectSeq(Consumed(stream), IsUtf8))

\* The lines of a stream write_line wrote, in the order it wrote them.
DispatchedTexts(stream) ==
  LET FromStream(d) == d.stream = stream
      ds == SelectSeq(dispatched, FromStream)
  IN  [i \in 1..Len(ds) |-> ds[i].rec.text]

\* The records write_line wrote to a sink, in the order it wrote them.
DispatchedTo(sink) ==
  LET ToSink(d) == Routed(d.stream) = sink
      ds == SelectSeq(dispatched, ToSink)
  IN  [i \in 1..Len(ds) |-> ds[i].rec]

\* C13: with tee on, every line read from the child's stdout is printed to
\* the wrapper's stdout and every line read from its stderr to the wrapper's
\* stderr, once each and in the order of the stream, so that after a
\* completed run the mirrored sequences are S_out and S_err; with tee off
\* nothing is printed to either; and what is written to the sinks does not
\* depend on tee: the lines written are the lines read, the last one
\* excepted when its write failed, and after a completed run the sinks hold
\* exactly the lines written.
C13_TeeMirrorsEachStream ==
  \A s \in Streams :
    LET read == ReadLines(s)
        written == DispatchedTexts(s)
    IN  /\ Completed => LineRecs(Routed(s)) = DispatchedTo(Routed(s))
        /\ cfg.tee => term[s] = read
        /\ (cfg.tee /\ Completed) => term[s] = S(s)
        /\ ~cfg.tee => term[s] = <<>>
        /\ \/ written = read
           \/ /\ error = "write"
              /\ read # <<>>
              /\ written = Front(read)
        /\ Completed => written = S(s)

\* A completed run with tee on that mirrored a line of each stream.
C13_Witness ==
  /\ Completed
  /\ cfg.tee
  /\ term["out"] # <<>>
  /\ term["err"] # <<>>
  /\ term["out"] = S("out")
  /\ term["err"] = S("err")

\* ---------------------------------------------------------------- C14
\* What a combined run writes for the lines of this run, delivered in the
\* same order: both loops call write_line with the same arguments at each
\* dispatch, the combined one always on the one sink.
CombinedSink == [i \in 1..Len(dispatched) |-> dispatched[i].rec]

\* The lines of the combined sink that carry a tag.
CombinedTagged(tag) ==
  LET Has(r) == r.tag = tag IN SelectSeq(CombinedSink, Has)

\* The lines of the combined sink that were read from a stream.
CombinedFrom(stream) ==
  LET FromStream(d) == d.stream = stream
      ds == SelectSeq(dispatched, FromStream)
  IN  [i \in 1..Len(ds) |-> ds[i].rec]

\* The sinks of a split run hold no line of the other stream.
NoForeignLine ==
  cfg.split_streams =>
    \A s \in Streams :
      LET recs == LineRecs(s) IN
      \A i \in 1..Len(recs) :
        /\ \E j \in 1..Len(wrote[s]) : wrote[s][j].text = recs[i].text
        /\ recs[i].tag \in {"", StreamTag(s)}

\* C14 as stated: after a completed split run the lines of the stdout sink
\* are the lines tagged STDOUT of the combined sink, the lines of the stderr
\* sink the lines tagged STDERR, no sink holds a line of the other stream
\* and there are two files.
C14_SplitIsTaggedSubsequence ==
  /\ NoForeignLine
  /\ (Completed /\ cfg.split_streams) =>
       /\ LineRecs("out") = CombinedTagged("STDOUT")
       /\ LineRecs("err") = CombinedTagged("STDERR")
       /\ Cardinality(DOMAIN fs) = 2

\* C14: for the same lines delivered in the same order a split run and a
\* combined run write the same line records, routed differently: the combined
\* sink holds them in the order of dispatch, the split stdout sink holds
\* those read from stdout and the split stderr sink those read from stderr,
\* in the same order; unless plain_lines is set these are the lines tagged
\* STDOUT and the lines tagged STDERR of the combined sink.  No split sink
\* holds a line of the other stream, and a split run leaves two files.
C14_SplitRoutesCombinedLines ==
  /\ NoForeignLine
  /\ (Completed /\ ~cfg.split_streams) => LineRecs("main") = CombinedSink
  /\ (Completed /\ cfg.split_streams) =>
       /\ LineRecs("out") = CombinedFrom("out")
       /\ LineRecs("err") = CombinedFrom("err")
       /\ Len(LineRecs("out")) + Len(LineRecs("err")) = Len(CombinedSink)
       /\ ~cfg.plain_lines =>
            /\ LineRecs("out") = CombinedTagged("STDOUT")
            /\ LineRecs("err") = CombinedTagged("STDERR")
       /\ Cardinality(DOMAIN fs) = 2

\* A completed split run with a line in each sink.
C14_Witness ==
  /\ Completed
  /\ cfg.split_streams
  /\ LineRecs("out") # <<>>
  /\ LineRecs("err") # <<>>
  /\ Len(dispatched) = 2

\* ---------------------------------------------------------------- C15
\* The three forms of a written line: the bare text; [time][STREAM] text;
\* [STREAM] text.
IsPlainForm(r, text) ==
  r = [kind |-> "line", tag |-> "", ts |-> "", text |-> text, code |-> NoCode]

IsStampedForm(r, stream, text) ==
  /\ r.ts \in Times
  /\ r = [kind |-> "line", tag |-> StreamTag(stream), ts |-> r.ts, text |-> text,
          code |-> NoCode]

IsTaggedForm(r, stream, text) ==
  r = [kind |-> "line", tag |-> StreamTag(stream), ts |-> "", text |-> text,
       code |-> NoCode]

\* C15: a line is written in one of three forms, decided in this order: with
\* plain_lines the bare text, whatever timestamp_each_line is; else with
\* timestamp_each_line the text after [time][STREAM]; else the text after
\* [STREAM], where STREAM is STDOUT for a line of stdout and STDERR for a
\* line of stderr.  Every line written and every line found in a sink has
\* the form its run's settings select.
C15_LineFormByMode ==
  LET Form(r, stream, text) ==
        IF cfg.plain_lines THEN IsPlainForm(r, text)
        ELSE IF cfg.timestamp_each_line THEN IsStampedForm(r, stream, text)
        ELSE IsTaggedForm(r, stream, text)
  IN  /\ \A i \in 1..Len(dispatched) :
           /\ Form(dispatched[i].rec, dispatched[i].stream, dispatched[i].rec.text)
           /\ \E j \in 1..Len(wrote[dispatched[i].stream]) :
                wrote[dispatched[i].stream][j].text = dispatched[i].rec.text
      /\ \A s \in UsedSinks(cfg) :
           LET recs == LineRecs(s) IN
           \A i \in 1..Len(recs) :
             \E stream \in Streams :
               /\ Routed(stream) = s
               /\ Form(recs[i], stream, recs[i].text)

\* A run with plain_lines and timestamp_each_line both set that wrote a
\* line of each stream to its file without tag and timestamp.
C15_Witness ==
  /\ Completed
  /\ cfg.plain_lines
  /\ cfg.timestamp_each_line
  /\ Len(dispatched) = 2
  /\ dispatched[1].stream # dispatched[2].stream
  /\ \A s \in UsedSinks(cfg) :
       /\ LineRecs(s) # <<>>
       /\ \A i \in 1..Len(LineRecs(s)) : LineRecs(s)[i].tag = "" /\ LineRecs(s)[i].ts = ""

\* ---------------------------------------------------------------- C16
\* C16: when the rename of a sink's file to its final name fails, the run
\* goes on and ends with the code of the child, the file stays under the
\* name it was written under, and the wrapper has printed a warning about
\* the failed rename.
C16_RenameFailureWarned ==
  \A s \in SinkIds :
    renamed[s] = "failed" =>
      /\ error = "none"
      /\ writers[s].path \in DOMAIN fs
      /\ pc = "exited" => exit_code = code
      /\ "rename_failed" \in warnings

\* ---------------------------------------------------------------- C17
\* The names of the files the sinks were opened under.
OpenedPaths == {writers[s].path : s \in {t \in SinkIds : writers[t].state # "none"}}

\* C17: when the template has no {exit_code}, a sink is opened under a name
\* that does not depend on the exit code and is no temporary name, no rename
\* is ever performed, and the files in the output directory are exactly the
\* files the sinks were opened under, during the run and after it.  (The
\* names are looked at where the sinks are opened: before the first open
\* the rendered name, after each open the name of the sink.)
C17_NoRenameWithoutExitCode ==
  ~needs_rename(cfg) =>
    /\ pc \in {"c_open", "s_open_out"} =>
         /\ \A c \in ExitCodes : render_template(cfg.filename_template, c) = base_name(cfg)
         /\ log_path = LogPath(cfg)
    /\ pc \in {"c_header", "s_open_err", "s_header_out"} =>
         \A s \in SinkIds :
           writers[s].state # "none" =>
             /\ ~IsHidden(writers[s].path)
             /\ ~InName("partial", writers[s].path)
             /\ ~InName("NA", writers[s].path)
             /\ writers[s].path = IF s = "main" THEN log_path ELSE SplitPath(cfg, log_path, s)
    /\ \A s \in SinkIds : renamed[s] = "none"
    /\ pc \notin {"c_rename", "s_rename_out", "s_rename_err"}
    /\ DOMAIN fs = OpenedPaths
    /\ Completed => Cardinality(DOMAIN fs) = Cardinality(UsedSinks(cfg))

\* A completed combined run of a template without {exit_code}.
C17_Witness ==
  /\ Completed
  /\ ~needs_rename(cfg)
  /\ ~cfg.split_streams
  /\ DOMAIN fs = {writers["main"].path}
  /\ FullContent("main", fs[writers["main"].path].data)

\* ---------------------------------------------------------------- C18
\* The wrapper is at child.wait(), or past it.
WaitIssued ==
  \/ pc \in {"c_wait", "s_wait"}
  \/ code # NoCode
  \/ error = "wait"

\* C18: the wrapper waits for the child to terminate only after both pipes
\* have reported their end: whenever the wait is issued or done, both
\* streams are done, the pipes are empty and every line the child wrote was
\* read; and the step that issues the wait starts with both streams done.
C18_WaitOnlyAfterBothEnded ==
  /\ [](WaitIssued =>
          /\ out_done /\ err_done
          /\ \A s \in Streams : pipe[s] = <<>> /\ Consumed(s) = wrote[s])
  /\ [][pc' \in {"c_wait", "s_wait"} => out_done /\ err_done]_vars

\* The wrapper waits for a child that closed its streams and still runs,
\* after it read a line of each stream.
C18_Witness ==
  /\ pc \in {"c_wait", "s_wait"}
  /\ child.state = "closed"
  /\ out_done /\ err_done
  /\ wrote["out"] # <<>>
  /\ wrote["err"] # <<>>

\* ---------------------------------------------------------------- C19
Done(s) == IF s = "out" THEN out_done ELSE err_done

InDrain == pc \in {"c_drain", "s_drain"}

\* A step of the drain loop obeys the done flags: a stream is marked done
\* only at its end, with nothing left in its pipe; a stream that is done
\* stays done and nothing more is read, mirrored or written from it; the
\* loop is left for the wait only with both streams done, a loop with both
\* streams done does nothing but leave, and a loop with a stream not done
\* goes on or fails.
DrainStep ==
  /\ \A s \in Streams :
       /\ Done(s) =>
            /\ Done(s)'
            /\ pipe'[s] = pipe[s]
            /\ term'[s] = term[s]
            /\ DispatchedTexts(s)' = DispatchedTexts(s)
       /\ (~Done(s) /\ Done(s)') =>
            /\ InDrain
            /\ pipe[s] = <<>>
            /\ child.state # "running"
            /\ Consumed(s) = wrote[s]
            /\ pc' = pc
  /\ (InDrain /\ pc' \in {"c_wait", "s_wait"}) => out_done /\ err_done
  /\ (InDrain /\ out_done /\ err_done /\ pc' # pc) => pc' \in {"c_wait", "s_wait"}
  /\ (InDrain /\ ~(out_done /\ err_done)) => pc' \in {pc, "drop"}

\* C19: in the drain loop a stream that reported its end is marked done,
\* stays done and is never read again; the loop ends exactly when both
\* streams are done, and until then it waits on exactly the streams that are
\* not done: a branch is open for a stream iff the loop runs and the stream
\* is not done (and its pipe has a line or has ended), and the loop can be
\* left iff both are done.
C19_DoneStreamsNeverPolled ==
  /\ [][DrainStep]_vars
  /\ [](\A s \in Streams :
          (ENABLED (IF s = "out" THEN C_ReadOut \/ S_ReadOut ELSE C_ReadErr \/ S_ReadErr))
            <=> (InDrain /\ ~Done(s) /\ (pipe[s] # <<>> \/ child.state # "running")))
  /\ []((ENABLED (C_Break \/ S_Break)) <=> (InDrain /\ out_done /\ err_done))

\* The loop goes on reading stderr after stdout ended with a line read.
C19_Witness ==
  /\ InDrain
  /\ out_done
  /\ ~err_done
  /\ pipe["err"] # <<>>
  /\ DispatchedTexts("out") # <<>>

\* ---------------------------------------------------------------- C20
\* The file of a sink holds the trailer.
TrailerOnDisk(s) ==
  /\ writers[s].path \in DOMAIN fs
  /\ \E i \in 1..Len(fs[writers[s].path].data) : fs[writers[s].path].data[i].kind = "trailer"

\* A trailer is in a sink only once the child was awaited.
TrailerAfterWait ==
  \A s \in SinkIds : TrailersIn(s) # <<>> => code # NoCode

\* The end of a run keeps its order: a sink is closed in a run without error
\* only when its trailer is in the file and nothing is buffered, and a file
\* is renamed only when its sink is closed.
EndOfRunOrder ==
  \A s \in SinkIds :
    /\ (writers[s].state = "open" /\ writers'[s].state = "closed" /\ error = "none") =>
         /\ code # NoCode
         /\ writers[s].buf = <<>>
         /\ TrailerOnDisk(s)
    /\ (renamed[s] = "none" /\ renamed'[s] # "none") =>
         /\ error = "none"
         /\ writers[s].state = "closed"
         /\ writers[s].buf = <<>>
         /\ TrailerOnDisk(s)

\* C20: at the end of a run the child is awaited, then the trailer is
\* appended to each sink, then each sink is flushed and closed, a gzip
\* stream finished, and only then the file is renamed: no file is renamed
\* while its sink is open or holds unwritten data or while its gzip stream
\* is not finished.
C20_RenameOnlyFinishedFile ==
  /\ []TrailerAfterWait
  /\ [][/\ EndOfRunOrder
        /\ \A s \in SinkIds :
             (renamed[s] = "none" /\ renamed'[s] = "ok") =>
               fs[writers[s].path].finished]_vars

\* ---------------------------------------------------------------- C21
\* After a failed spawn: there is no child, every sink of the run has its
\* file under the name it was opened under, the file holds the header or
\* nothing, no line and no trailer, the output directory holds no other
\* file, nothing is renamed and the wrapper exits with 1.
SpawnFailureLeavesHeaderOnly ==
  error = "spawn" =>
    /\ child.state = "none"
    /\ dispatched = <<>>
    /\ code = NoCode
    /\ pc \in {"drop", "main", "exited"}
    /\ pc = "exited" => exit_code = 1
    /\ DOMAIN fs = OpenedPaths
    /\ \A s \in SinkIds : renamed[s] = "none"
    /\ \A s \in UsedSinks(cfg) :
         /\ writers[s].state # "none"
         /\ writers[s].path = IF s = "main" THEN log_path ELSE SplitPath(cfg, log_path, s)
         /\ writers[s].path \in DOMAIN fs
         /\ fs[writers[s].path].data \in {<<>>, <<Header>>}
         /\ Appended(s) \in {<<>>, <<Header>>}

\* C21: a run whose child cannot be spawned leaves every sink file at the
\* path it was opened under, which is the hidden temporary path when the
\* template has {exit_code}, holding at most the header, without line and
\* trailer; it renames nothing and exits with 1.
C21_SpawnFailureLeavesTempFiles ==
  /\ SpawnFailureLeavesHeaderOnly
  /\ (error = "spawn" /\ needs_rename(cfg)) =>
       \A s \in UsedSinks(cfg) : IsHidden(writers[s].path)

====
